---- MODULE Spec2Model ----
(***************************************************************************)
(* Model of the magazine collector: the topic pipeline of collector.py     *)
(* (classify_text, save_articles, download_magazine, main) and the EPUB    *)
(* converter of collector_mvp.py (module start-up, epub_to_md, main).      *)
(*                                                                         *)
(* A text is a sequence of one-character strings, so that lowercasing,     *)
(* stripping, the split pattern and the \b keyword search are computed on  *)
(* characters as Python computes them. The characters are those of         *)
(* U+0001..U+00FF.                                                         *)
(***************************************************************************)
EXTENDS Integers, Sequences, FiniteSets, TLC

(***************************************************************************)
(* Characters                                                              *)
(***************************************************************************)
UPPER == <<"A","B","C","D","E","F","G","H","I","J","K","L","M","N","O","P","Q","R","S","T","U","V","W","X","Y","Z">>
LOWER == <<"a","b","c","d","e","f","g","h","i","j","k","l","m","n","o","p","q","r","s","t","u","v","w","x","y","z">>
DIGITS == <<"0","1","2","3","4","5","6","7","8","9">>

\* the capital letters of U+00C0..U+00DE and, at the same position, what
\* str.lower() makes of them
LATIN_UPPER == <<
  "À", "Á", "Â", "Ã", "Ä", "Å", "Æ", "Ç", "È", "É", "Ê", "Ë", "Ì", "Í", "Î",
  "Ï", "Ð", "Ñ", "Ò", "Ó", "Ô", "Õ", "Ö", "Ø", "Ù", "Ú", "Û", "Ü", "Ý", "Þ" >>
LATIN_LOWER == <<
  "à", "á", "â", "ã", "ä", "å", "æ", "ç", "è", "é", "ê", "ë", "ì", "í", "î",
  "ï", "ð", "ñ", "ò", "ó", "ô", "õ", "ö", "ø", "ù", "ú", "û", "ü", "ý", "þ" >>
\* the other characters above U+007F that \w matches in a str pattern
LATIN_OTHER == <<
  "ª", "²", "³", "µ", "¹", "º", "¼", "½", "¾", "ß", "ÿ" >>

\* the characters of the model in code point order: U+0001..U+00FF without
\* the backquote, which no TLA+ string holds
CHARS == <<
  "", "", "", "", "", "", "", "", "\t", "\n", "", "\f", "\r", "",
  "", "", "", "", "", "", "", "", "", "", "", "", "", "", "",
  "", "", " ", "!", "\"", "#", "$", "%", "&", "'", "(", ")", "*", "+",
  ",", "-", ".", "/", "0", "1", "2", "3", "4", "5", "6", "7", "8", "9", ":",
  ";", "<", "=", ">", "?", "@", "A", "B", "C", "D", "E", "F", "G", "H", "I",
  "J", "K", "L", "M", "N", "O", "P", "Q", "R", "S", "T", "U", "V", "W", "X",
  "Y", "Z", "[", "\\", "]", "^", "_", "a", "b", "c", "d", "e", "f", "g",
  "h", "i", "j", "k", "l", "m", "n", "o", "p", "q", "r", "s", "t", "u", "v",
  "w", "x", "y", "z", "{", "|", "}", "~", "", "", "", "", "", "", "",
  "", "", "", "", "", "", "", "", "", "", "", "", "", "", "",
  "", "", "", "", "", "", "", "", "", "", "", " ", "¡", "¢", "£",
  "¤", "¥", "¦", "§", "¨", "©", "ª", "«", "¬", "­", "®", "¯", "°", "±", "²",
  "³", "´", "µ", "¶", "·", "¸", "¹", "º", "»", "¼", "½", "¾", "¿", "À", "Á",
  "Â", "Ã", "Ä", "Å", "Æ", "Ç", "È", "É", "Ê", "Ë", "Ì", "Í", "Î", "Ï", "Ð",
  "Ñ", "Ò", "Ó", "Ô", "Õ", "Ö", "×", "Ø", "Ù", "Ú", "Û", "Ü", "Ý", "Þ", "ß",
  "à", "á", "â", "ã", "ä", "å", "æ", "ç", "è", "é", "ê", "ë", "ì", "í", "î",
  "ï", "ð", "ñ", "ò", "ó", "ô", "õ", "ö", "÷", "ø", "ù", "ú", "û", "ü", "ý",
  "þ", "ÿ" >>

\* ord(c), up to the gaps of CHARS: c < d in Python iff Ord(c) < Ord(d)
Ord(c) == CHOOSE i \in 1..Len(CHARS) : CHARS[i] = c

UpperSet == {UPPER[i] : i \in 1..26}
LowerSet == {LOWER[i] : i \in 1..26}
\* \w of the re module in a str pattern (lines 165, 181): the letters and
\* digits of Unicode and the underscore
WordChars ==
  UpperSet \cup LowerSet \cup {DIGITS[i] : i \in 1..10} \cup {"_"}
    \cup {LATIN_UPPER[i] : i \in 1..Len(LATIN_UPPER)}
    \cup {LATIN_LOWER[i] : i \in 1..Len(LATIN_LOWER)}
    \cup {LATIN_OTHER[i] : i \in 1..Len(LATIN_OTHER)}
\* \s of the re module in a str pattern and the characters str.strip() takes
WhiteSpace ==
  {"\t", "\n", "", "\f", "\r", "", "", "", "", " ", "", " "}

IsSpace(c) == c \in WhiteSpace
IsWord(c) == c \in WordChars

\* str.lower() on one character
lower_char(c) ==
  IF c \in UpperSet THEN LOWER[CHOOSE i \in 1..26 : UPPER[i] = c]
  ELSE IF \E i \in 1..Len(LATIN_UPPER) : LATIN_UPPER[i] = c
       THEN LATIN_LOWER[CHOOSE i \in 1..Len(LATIN_UPPER) : LATIN_UPPER[i] = c]
       ELSE c

\* text.lower()
str_lower(s) == [i \in 1..Len(s) |-> lower_char(s[i])]

RECURSIVE SkipSpace(_, _)
\* first index >= i of s that holds no whitespace (Len(s)+1 when there is none)
SkipSpace(s, i) ==
  IF i <= Len(s) /\ IsSpace(s[i]) THEN SkipSpace(s, i + 1) ELSE i

RECURSIVE SkipSpaceBack(_, _)
\* last index <= i of s that holds no whitespace (0 when there is none)
SkipSpaceBack(s, i) ==
  IF i >= 1 /\ IsSpace(s[i]) THEN SkipSpaceBack(s, i - 1) ELSE i

RECURSIVE SkipChar(_, _, _)
\* first index >= i of s that does not hold the character c
SkipChar(s, i, c) ==
  IF i <= Len(s) /\ s[i] = c THEN SkipChar(s, i + 1, c) ELSE i

\* article.strip()
str_strip(s) ==
  LET a == SkipSpace(s, 1)
      b == SkipSpaceBack(s, Len(s))
  IN IF a > b THEN <<>> ELSE SubSeq(s, a, b)

(***************************************************************************)
(* The split pattern  \n\s*#{1,3}\s+|\n\n+(?=[A-Z])                        *)
(* Each operator gives the index just after the match that starts at i,    *)
(* or 0 when the alternative does not match at i.                          *)
(***************************************************************************)
\* \n\s*#{1,3}\s+ : a newline, any whitespace, one to three '#', whitespace
HeadingMatchEnd(s, i) ==
  LET j == SkipSpace(s, i + 1)
      k == SkipChar(s, j, "#")
  IN IF /\ s[i] = "\n"
        /\ k - j >= 1
        /\ k - j <= 3
        /\ k <= Len(s)
        /\ IsSpace(s[k])
     THEN SkipSpace(s, k)
     ELSE 0

\* \n\n+(?=[A-Z]) : two or more newlines followed by an upper-case letter
ParagraphMatchEnd(s, i) ==
  LET k == SkipChar(s, i + 1, "\n")
  IN IF /\ s[i] = "\n"
        /\ k - i >= 2
        /\ k <= Len(s)
        /\ s[k] \in UpperSet
     THEN k
     ELSE 0

\* the alternation: the first alternative that matches at i wins
SplitMatchEnd(s, i) ==
  IF HeadingMatchEnd(s, i) > 0 THEN HeadingMatchEnd(s, i)
  ELSE ParagraphMatchEnd(s, i)

\* re.split(pattern, s): the pieces between the leftmost non-overlapping matches
re_split(s) ==
  LET starts == {i \in 1..Len(s) : s[i] = "\n" /\ SplitMatchEnd(s, i) > 0}
      RECURSIVE Pieces(_)
      Pieces(pos) ==
        LET c == {i \in starts : i >= pos}
        IN IF c = {}
           THEN << SubSeq(s, pos, Len(s)) >>
           ELSE LET i == CHOOSE x \in c : \A y \in c : x <= y
                IN << SubSeq(s, pos, i - 1) >> \o Pieces(SplitMatchEnd(s, i))
  IN Pieces(1)

(***************************************************************************)
(* Topics and keywords                                                     *)
(***************************************************************************)
KW_technology ==
  << <<"t","e","c","h">>,
     <<"t","e","c","h","n","o","l","o","g","y">>,
     <<"a","i">>,
     <<"a","r","t","i","f","i","c","i","a","l"," ","i","n","t","e","l","l","i","g","e","n","c","e">>,
     <<"d","i","g","i","t","a","l">>,
     <<"s","o","f","t","w","a","r","e">>,
     <<"h","a","r","d","w","a","r","e">>,
     <<"c","o","m","p","u","t","e","r">>,
     <<"i","n","t","e","r","n","e","t">>,
     <<"c","y","b","e","r">>,
     <<"m","a","c","h","i","n","e"," ","l","e","a","r","n","i","n","g">>,
     <<"b","l","o","c","k","c","h","a","i","n">>,
     <<"d","a","t","a">>,
     <<"a","l","g","o","r","i","t","h","m">> >>

KW_finance ==
  << <<"f","i","n","a","n","c","e">>,
     <<"e","c","o","n","o","m","y">>,
     <<"e","c","o","n","o","m","i","c">>,
     <<"m","a","r","k","e","t">>,
     <<"s","t","o","c","k">>,
     <<"b","a","n","k","i","n","g">>,
     <<"i","n","v","e","s","t","m","e","n","t">>,
     <<"t","r","a","d","e">>,
     <<"f","i","s","c","a","l">>,
     <<"m","o","n","e","t","a","r","y">>,
     <<"i","n","f","l","a","t","i","o","n">>,
     <<"r","e","c","e","s","s","i","o","n">>,
     <<"c","u","r","r","e","n","c","y">>,
     <<"d","e","b","t">> >>

KW_science ==
  << <<"s","c","i","e","n","c","e">>,
     <<"m","a","t","h","e","m","a","t","i","c","s">>,
     <<"p","h","y","s","i","c","s">>,
     <<"c","h","e","m","i","s","t","r","y">>,
     <<"b","i","o","l","o","g","y">>,
     <<"r","e","s","e","a","r","c","h">>,
     <<"d","i","s","c","o","v","e","r","y">>,
     <<"e","x","p","e","r","i","m","e","n","t">>,
     <<"t","h","e","o","r","y">>,
     <<"s","c","i","e","n","t","i","f","i","c">>,
     <<"q","u","a","n","t","u","m">>,
     <<"e","q","u","a","t","i","o","n">>,
     <<"h","y","p","o","t","h","e","s","i","s">> >>

KW_world_affairs ==
  << <<"p","o","l","i","t","i","c","s">>,
     <<"w","a","r">>,
     <<"c","o","n","f","l","i","c","t">>,
     <<"d","i","p","l","o","m","a","c","y">>,
     <<"i","n","t","e","r","n","a","t","i","o","n","a","l">>,
     <<"g","l","o","b","a","l">>,
     <<"g","o","v","e","r","n","m","e","n","t">>,
     <<"p","o","l","i","c","y">>,
     <<"e","l","e","c","t","i","o","n">>,
     <<"c","r","i","s","i","s">>,
     <<"t","r","e","a","t","y">>,
     <<"s","a","n","c","t","i","o","n">>,
     <<"a","l","l","i","a","n","c","e">>,
     <<"n","a","t","i","o","n">> >>

\* iteration order of the TOPICS_KEYWORDS dict (insertion order)
TOPICS == << "technology", "finance", "science", "world_affairs" >>

TopicSet == {TOPICS[i] : i \in 1..Len(TOPICS)}

TOPICS_KEYWORDS ==
  [topic \in TopicSet |->
     CASE topic = "technology" -> KW_technology
       [] topic = "finance" -> KW_finance
       [] topic = "science" -> KW_science
       [] topic = "world_affairs" -> KW_world_affairs]

\* \b at position p of s: exactly one of s[p-1], s[p] is a word character
WordBoundary(s, p) ==
  (p > 1 /\ IsWord(s[p - 1])) # (p <= Len(s) /\ IsWord(s[p]))

\* \b keyword \b matches s at position p
KeywordAt(s, kw, p) ==
  /\ \A q \in 1..Len(kw) : s[p + q - 1] = kw[q]
  /\ WordBoundary(s, p)
  /\ WordBoundary(s, p + Len(kw))

\* re.search(r'\b' + re.escape(keyword) + r'\b', article)
re_search(kw, s) ==
  \E p \in 1..(Len(s) - Len(kw) + 1) : KeywordAt(s, kw, p)

\* mutant: every occurrence of a keyword counts (re.findall for re.search)
Hits_CountOccurrences(topic, article) ==
  LET kws == TOPICS_KEYWORDS[topic]
  IN Cardinality({x \in (1..Len(kws)) \X (1..Len(article)) :
                    /\ x[2] + Len(kws[x[1]]) - 1 <= Len(article)
                    /\ KeywordAt(article, kws[x[1]], x[2])})

\* hits = sum(1 for keyword in keywords if re.search(...))
Hits(topic, article) ==
  LET kws == TOPICS_KEYWORDS[topic]
  IN Cardinality({k \in 1..Len(kws) : re_search(kws[k], article)})

\* the list article_topics: (topic, hits) for the topics with a hit, in dict order
ArticleTopics(article) ==
  SelectSeq([i \in 1..Len(TOPICS) |-> << TOPICS[i], Hits(TOPICS[i], article) >>],
            LAMBDA x : x[2] > 0)

RECURSIVE InsertByHits_TiesFirst(_, _)
\* mutant: x goes in front of the entries with as many hits (an unstable sort)
InsertByHits_TiesFirst(sorted, x) ==
  IF sorted = <<>> THEN << x >>
  ELSE IF Head(sorted)[2] > x[2]
       THEN << Head(sorted) >> \o InsertByHits_TiesFirst(Tail(sorted), x)
       ELSE << x >> \o sorted

RECURSIVE InsertByHits(_, _)
\* x goes behind every entry with at least as many hits: list.sort is stable
InsertByHits(sorted, x) ==
  IF sorted = <<>> THEN << x >>
  ELSE IF Head(sorted)[2] >= x[2]
       THEN << Head(sorted) >> \o InsertByHits(Tail(sorted), x)
       ELSE << x >> \o sorted

RECURSIVE SortByHits(_)
\* article_topics.sort(key=lambda x: x[1], reverse=True)
SortByHits(seq) ==
  IF seq = <<>> THEN <<>>
  ELSE InsertByHits(SortByHits(SubSeq(seq, 1, Len(seq) - 1)), seq[Len(seq)])

\* len(article.strip()) < 100
MIN_LENGTH == 100

RECURSIVE ClassifyLoop_EveryTopic(_, _)
\* mutant: the article is appended to every topic that has a hit
ClassifyLoop_EveryTopic(articles, classified) ==
  IF articles = <<>> THEN classified
  ELSE LET article == Head(articles)
           article_topics == SortByHits(ArticleTopics(article))
       IN IF Len(str_strip(article)) < MIN_LENGTH
          THEN ClassifyLoop_EveryTopic(Tail(articles), classified)
          ELSE ClassifyLoop_EveryTopic(Tail(articles),
                 [topic \in TopicSet |->
                    IF \E k \in 1..Len(article_topics) : article_topics[k][1] = topic
                    THEN Append(classified[topic], str_strip(article))
                    ELSE classified[topic]])

RECURSIVE ClassifyLoop(_, _)
\* the loop over articles of classify_text
ClassifyLoop(articles, classified) ==
  IF articles = <<>> THEN classified
  ELSE LET article == Head(articles)
           article_topics == SortByHits(ArticleTopics(article))
       IN IF Len(str_strip(article)) < MIN_LENGTH
          THEN ClassifyLoop(Tail(articles), classified)
          ELSE IF article_topics # <<>>
               THEN ClassifyLoop(Tail(articles),
                      [classified EXCEPT ![article_topics[1][1]] =
                                           Append(@, str_strip(article))])
               ELSE ClassifyLoop(Tail(articles), classified)

\* the list `articles` of classify_text: the lowercased text, split
Segments(text, file_type) ==
  IF file_type = "article" THEN re_split(str_lower(text))
  ELSE << str_lower(text) >>

classify_text(text, file_type) ==
  ClassifyLoop(Segments(text, file_type), [topic \in TopicSet |-> <<>>])

(***************************************************************************)
(* Maps (dicts, the files of a directory)                                  *)
(***************************************************************************)
EmptyMap == [x \in {} |-> 0]

\* f with the entries of g written over it
Overlay(f, g) ==
  [x \in (DOMAIN f) \cup (DOMAIN g) |-> IF x \in DOMAIN g THEN g[x] ELSE f[x]]

(***************************************************************************)
(* save_articles                                                           *)
(***************************************************************************)
\* article.split('\n')[0]
FirstLine(article) ==
  LET nl == {i \in 1..Len(article) : article[i] = "\n"}
  IN IF nl = {} THEN article
     ELSE SubSeq(article, 1, (CHOOSE i \in nl : \A j \in nl : i <= j) - 1)

\* output_file = ARTICLES_DIR / topic / f"{magazine_name}_{today}.md"
OutputFile(topic, magazine_name, day) ==
  [dir |-> topic, magazine |-> magazine_name, date |-> day]

\* mutant: the file is reopened for every article, so only the last one stays
FileContent_LastOnly(topic, magazine_name, day, articles) ==
  [heading |-> << magazine_name, topic, day >>,
   sections |-> << [title |-> FirstLine(articles[Len(articles)]),
                    body |-> articles[Len(articles)]] >>]

\* what one open(output_file, "w") block writes: the heading line, then one
\* "## title / body / ---" section per article of the topic
FileContent(topic, magazine_name, day, articles) ==
  [heading |-> << magazine_name, topic, day >>,
   sections |-> [i \in 1..Len(articles) |->
                   [title |-> FirstLine(articles[i]), body |-> articles[i]]]]

\* the topics save_articles does not skip
SavedTopics(classified) == {topic \in TopicSet : classified[topic] # <<>>}

\* the files save_articles writes
WrittenFiles(magazine_name, classified, day) ==
  [f \in {OutputFile(topic, magazine_name, day) : topic \in SavedTopics(classified)}
     |-> FileContent(f.dir, magazine_name, day, classified[f.dir])]

\* the dict `results` save_articles returns
save_articles(magazine_name, classified) ==
  [topic \in SavedTopics(classified) |-> Len(classified[topic])]

(***************************************************************************)
(* The target repository and download_magazine                             *)
(***************************************************************************)
\* iteration order of the MAGAZINES dict
MAGAZINES == << "economist", "wired", "atlantic" >>

MagazineSet == {MAGAZINES[i] : i \in 1..Len(MAGAZINES)}

\* the literal text each "pattern" of MAGAZINES begins with
PatternPrefix(magazine_name) ==
  CASE magazine_name = "economist" -> << "e", "c", "o", "n", "o", "m", "i", "s", "t" >>
    [] magazine_name = "wired" -> << "w", "i", "r", "e", "d" >>
    [] magazine_name = "atlantic" -> << "a", "t", "l", "a", "n", "t", "i", "c" >>

\* the alternatives of  \.(epub|pdf|mobi)
PatternExts == {<< "e", "p", "u", "b" >>, << "p", "d", "f" >>, << "m", "o", "b", "i" >>}

\* re.match(file_pattern, content.name.lower()) for the pattern
\* <name>.*\.(epub|pdf|mobi): the lowered name begins with the magazine's
\* name and, after any characters but a newline, holds a dot followed by one
\* of the three extensions; what follows the extension is not looked at
MatchesPattern(magazine_name, name) ==
  LET n == str_lower(name)
      p == PatternPrefix(magazine_name)
  IN /\ Len(n) >= Len(p)
     /\ SubSeq(n, 1, Len(p)) = p
     /\ \E d \in (Len(p) + 1)..Len(n) :
          /\ n[d] = "."
          /\ \A k \in (Len(p) + 1)..(d - 1) : n[k] # "\n"
          /\ \E e \in PatternExts :
               d + Len(e) <= Len(n) /\ SubSeq(n, d + 1, d + Len(e)) = e

RECURSIVE NameBefore(_, _)
\* a < b for two str: the order of the code points, a prefix first
NameBefore(a, b) ==
  IF b = <<>> THEN FALSE
  ELSE IF a = <<>> THEN TRUE
  ELSE IF a[1] = b[1] THEN NameBefore(Tail(a), Tail(b))
  ELSE Ord(a[1]) < Ord(b[1])

\* s.endswith(suffix)
EndsWith(s, suffix) ==
  Len(s) >= Len(suffix) /\ SubSeq(s, Len(s) - Len(suffix) + 1, Len(s)) = suffix

\* matching_files of download_magazine
MatchingFiles(magazine_name, contents) ==
  {c \in contents : c.type = "file" /\ MatchesPattern(magazine_name, c.name)}

\* matching_files.sort(key=name, reverse=True); latest_file = matching_files[0]
LatestFile(matching) ==
  CHOOSE f \in matching : \A g \in matching : g = f \/ NameBefore(g.name, f.name)

(***************************************************************************)
(* Inputs: texts                                                           *)
(***************************************************************************)
\* bounds of the inputs
LongWords == 17
ShortWords == 2
MaxBlocks == 2
MaxRuns == 2

\* s repeated k times
Repeat(s, k) == [i \in 1..(k * Len(s)) |-> s[((i - 1) % Len(s)) + 1]]

\* k filler words that hold no keyword, the first one capitalised
Filler(k) ==
  << "L", "o", "r", "e", "m", " " >> \o Repeat(<< "l", "o", "r", "e", "m", " " >>, k - 1)

PhraseIds == {"tech6", "repeat", "substring", "tie", "tie2", "data", "accent"}

Phrase(id) ==
  CASE id = "tech6" -> << "a", "i", " ", "s", "o", "f", "t", "w", "a", "r", "e", " ", "i", "n", "t", "e", "r", "n", "e", "t", " ", "a", "i", " ", "s", "o", "f", "t", "w", "a", "r", "e", " ", "i", "n", "t", "e", "r", "n", "e", "t" >>
    [] id = "repeat" -> << "a", "i", " ", "a", "i", " ", "a", "i", " ", "m", "a", "r", "k", "e", "t", " ", "s", "t", "o", "c", "k" >>
    [] id = "substring" -> << "s", "a", "i", "d" >>
    [] id = "tie" -> << "m", "a", "r", "k", "e", "t", " ", "a", "i" >>
    [] id = "tie2" -> << "w", "a", "r", " ", "t", "h", "e", "o", "r", "y" >>
    [] id = "data" -> << "a", "i", " ", "d", "a", "t", "a" >>
    [] id = "accent" -> << "É", "a", "i" >>

\* a block of prose: filler words, a phrase, a full stop
Block(b) ==
  Filler(IF b.long THEN LongWords ELSE ShortWords) \o Phrase(b.phrase) \o << "." >>

BlockInputs ==
  {[long |-> TRUE, phrase |-> id] : id \in PhraseIds \ {"data"}}
    \cup {[long |-> FALSE, phrase |-> "tech6"]}

SepHeading == << "\n", "#", "#", " " >>
SepBlank == << "\n", "\n", "\n", "\n" >>
Separators == {SepHeading, SepBlank}

RECURSIVE JoinBlocks(_, _)
\* the blocks bs (n of them) joined by the separators seps (n-1 of them)
JoinBlocks(bs, seps) ==
  IF Len(bs) = 1 THEN Block(bs[1])
  ELSE Block(bs[1]) \o seps[1] \o JoinBlocks(Tail(bs), Tail(seps))

\* two blocks of 250 words each, each ending in '.', three blank lines between
TwoLongBlocks ==
  Repeat(<< "A", "i", " " >>, 249) \o << "a", "i", "." >> \o SepBlank
    \o Repeat(<< "W", "a", "r", " " >>, 249) \o << "w", "a", "r", "." >>

(***************************************************************************)
(* Inputs: the folders of the target repository                            *)
(* The content of a file is described by the text its reader yields:       *)
(* blocks joined by separators, the two long blocks, or nothing readable.  *)
(***************************************************************************)
Blocks(bs, seps) == [kind |-> "blocks", bs |-> bs, seps |-> seps]
Corrupt == [kind |-> "corrupt", bs |-> <<>>, seps |-> <<>>]
LongText == [kind |-> "long", bs |-> <<>>, seps |-> <<>>]
HeadingFirst == [kind |-> "heading", bs |-> <<>>, seps |-> <<>>]

\* two technology articles behind the same filler words
TwoArticles ==
  Blocks(<< [long |-> TRUE, phrase |-> "tech6"], [long |-> TRUE, phrase |-> "data"] >>,
         << SepHeading >>)
\* one block without any keyword
NoKeyword == Blocks(<< [long |-> TRUE, phrase |-> "substring"] >>, <<>>)

\* a text that begins with a Markdown heading after a no-break space, and
\* whose second heading has a no-break space after the '##'
HeadingFirstText ==
  << " ", "#", "#", " " >> \o Block([long |-> TRUE, phrase |-> "tech6"])
    \o << "\n", "#", "#", " " >> \o Block([long |-> TRUE, phrase |-> "data"])

\* the text the EPUB/PDF reader yields for a file (a corrupt file yields none)
FileText(content) ==
  CASE content.kind = "blocks" -> JoinBlocks(content.bs, content.seps)
    [] content.kind = "long" -> TwoLongBlocks
    [] content.kind = "heading" -> HeadingFirstText
    [] OTHER -> <<>>

\* the contents the text pipeline is run on
ContentInputs ==
  {Blocks(x[1], x[2]) :
     x \in UNION {[1..n -> BlockInputs] \X [1..(n - 1) -> Separators] :
                    n \in 1..MaxBlocks}}
    \cup {LongText, HeadingFirst}

\* the file name <prefix>_<issue>.<ext>
FileName(prefix, issue, ext) ==
  prefix \o << "_", DIGITS[issue + 1], "." >> \o ext

EPUB == << "e", "p", "u", "b" >>
PDF == << "p", "d", "f" >>
MOBI == << "m", "o", "b", "i" >>

\* the magazine's name with a capital first letter
Capitalized(magazine_name) ==
  LET p == PatternPrefix(magazine_name)
  IN << UPPER[CHOOSE i \in 1..26 : LOWER[i] = p[1]] >> \o Tail(p)

RepoFile(name, content) == [name |-> name, type |-> "file", content |-> content]

Readme == RepoFile(<< "R", "E", "A", "D", "M", "E", ".", "m", "d" >>, NoKeyword)
SubDir(m) == [name |-> FileName(PatternPrefix(m), 9, EPUB),
              type |-> "dir", content |-> NoKeyword]

FolderError == [ok |-> FALSE, contents |-> {}]

\* what repo.get_contents(folder) can answer for the folder of magazine m
FolderInputs(m) ==
  LET p == PatternPrefix(m)
  IN { FolderError,
       [ok |-> TRUE, contents |-> {Readme}],
       [ok |-> TRUE, contents |-> {Readme, RepoFile(FileName(p, 1, EPUB), TwoArticles)}],
       [ok |-> TRUE, contents |-> {RepoFile(FileName(p, 2, EPUB), Corrupt),
                                   RepoFile(FileName(p, 1, EPUB), TwoArticles)}],
       [ok |-> TRUE, contents |-> {RepoFile(FileName(p, 2, MOBI), TwoArticles),
                                   RepoFile(FileName(p, 1, EPUB), TwoArticles),
                                   SubDir(m)}],
       [ok |-> TRUE, contents |-> {RepoFile(FileName(p, 2, EPUB), NoKeyword),
                                   RepoFile(FileName(p, 1, PDF), TwoArticles)}] }
    \cup (IF m = MAGAZINES[1]
          THEN {[ok |-> TRUE,
                 contents |-> {RepoFile(FileName(Capitalized(m), 3, EPUB), Corrupt),
                               RepoFile(FileName(p, 1, EPUB \o << "3" >>),
                                        TwoArticles)}]}
          ELSE {})
    \cup (IF m = MAGAZINES[2]
          THEN {[ok |-> TRUE,
                 contents |-> {Readme, RepoFile(FileName(p, 1, PDF), HeadingFirst)}]}
          ELSE {})

RepoInputs == {r \in [MagazineSet -> UNION {FolderInputs(m) : m \in MagazineSet}] :
                 \A m \in MagazineSet : r[m] \in FolderInputs(m)}

\* a repository whose first folder holds one EPUB of the given content
TextRepo(content) ==
  [m \in MagazineSet |->
     IF m = MAGAZINES[1]
     THEN [ok |-> TRUE,
           contents |-> {RepoFile(FileName(PatternPrefix(m), 1, EPUB), content)}]
     ELSE FolderError]

(***************************************************************************)
(* State                                                                   *)
(***************************************************************************)
VARIABLES
  \* the environment of collector.py
  repo,                 \* the folders of TARGET_REPO
  recent_updated,       \* what check_repo_updates() answers in this run
  force_update,         \* whether the file FORCE_UPDATE exists in this run
  today,                \* the date of this run, as a day number
  run,                  \* the number of this run
  \* collector.main
  pc,                   \* position in main
  mi,                   \* index of the loop over MAGAZINES
  file_path,            \* the downloaded file ({} for None)
  text_content,
  classified_articles,
  magazine_results,
  dirs,                 \* directories made by setup_storage
  fs,                   \* the Markdown files under ARTICLES_DIR
  tmp,                  \* the files in temporary directories
  docs,                 \* the files under WEBSITE_DIR
  log,                  \* what this run has logged
  attempted,            \* magazines whose download this run has started
  downloaded,           \* the files download_magazine has returned in this run
  prev_files,           \* the files under ARTICLES_DIR when the previous run ended
  prev_completed,       \* whether the previous run went through all magazines
  steps,                \* the steps of the loop this run has taken, in order
  \* the environment of collector_mvp.py
  base_ok,              \* whether the working directory can be listed
  item_document,        \* whether the installed ebooklib.epub module has the
                        \* attribute ITEM_DOCUMENT that line 82 reads
  src_exists,           \* whether the directory SRC exists
  src_listing,          \* what SRC.glob('*.epub') yields
  mrun,                 \* the number of this run
  \* collector_mvp
  mpc,                  \* position in the script
  epub_files,           \* the list main collects
  ei,                   \* index of the loop over epub_files
  dst,                  \* the Markdown files under DST
  site,                 \* the HTML files under docs
  opened,               \* the EPUB files this run has read
  mlog,                 \* what this run has logged
  prev_dst              \* the files under DST when the previous run ended

cvars == << repo, recent_updated, force_update, today, run, pc, mi, file_path,
            text_content, classified_articles, magazine_results, dirs, fs, tmp,
            docs, log, attempted, downloaded, prev_files, prev_completed,
            steps >>

mvars == << base_ok, item_document, src_exists, src_listing, mrun, mpc,
           epub_files, ei, dst,
            site, opened, mlog, prev_dst >>

vars == << cvars, mvars >>

EmptyClassified == [topic \in TopicSet |-> <<>>]

\* the magazine of the current loop iteration
magazine_name == MAGAZINES[mi]

(***************************************************************************)
(* collector.main                                                          *)
(***************************************************************************)
\* setup_storage(): one directory per topic under ARTICLES_DIR, and WEBSITE_DIR
setup_storage == {<< "articles", topic >> : topic \in TopicSet} \cup {<< "docs" >>}

\* main, lines 506-509
MainStart ==
  /\ pc = "start"
  /\ log' = Append(log, << "info", "start", "" >>)
  /\ dirs' = dirs \cup setup_storage
  /\ pc' = "gate"
  /\ UNCHANGED mvars
  /\ UNCHANGED << repo, recent_updated, force_update, today, run, mi, file_path,
                  text_content, classified_articles, magazine_results, fs, tmp,
                  docs, attempted, downloaded, prev_files, prev_completed,
                  steps >>

\* the condition of line 512
NoUpdate == ~recent_updated /\ ~force_update

\* main, lines 512-516
CheckUpdates ==
  /\ pc = "gate"
  /\ IF NoUpdate
     THEN /\ log' = Append(log, << "info", "no recent update", "" >>)
          /\ pc' = "done"
          /\ UNCHANGED << mi, magazine_results >>
     ELSE /\ magazine_results' = EmptyMap
          /\ mi' = 1
          /\ pc' = "loop"
          /\ UNCHANGED log
  /\ UNCHANGED mvars
  /\ UNCHANGED << repo, recent_updated, force_update, today, run, file_path,
                  text_content, classified_articles, dirs, fs, tmp, docs,
                  attempted, downloaded, prev_files, prev_completed,
                  steps >>

\* download_magazine: the path of the downloaded latest file, {} for None
download_magazine(m) ==
  IF ~repo[m].ok THEN {}
  ELSE IF MatchingFiles(m, repo[m].contents) = {} THEN {}
  ELSE LET latest_file == LatestFile(MatchingFiles(m, repo[m].contents))
       IN {[dir |-> << run, m >>, name |-> latest_file.name,
            content |-> latest_file.content]}

\* what download_magazine logs
DownloadLog(m) ==
  IF ~repo[m].ok THEN << << "error", "folder", m >> >>
  ELSE IF MatchingFiles(m, repo[m].contents) = {}
       THEN << << "warning", "no matching file", m >> >>
       ELSE << << "info", "download", m >> >>

\* main, lines 519-526
Download ==
  /\ pc = "loop"
  /\ mi <= Len(MAGAZINES)
  /\ attempted' = attempted \cup {magazine_name}
  /\ downloaded' = downloaded \cup download_magazine(magazine_name)
  /\ file_path' = download_magazine(magazine_name)
  /\ tmp' = tmp \cup download_magazine(magazine_name)
  /\ IF download_magazine(magazine_name) = {}
     THEN /\ log' = log \o << << "info", "process", magazine_name >> >>
                      \o DownloadLog(magazine_name)
                      \o << << "warning", "cannot download", magazine_name >> >>
          /\ mi' = mi + 1
          /\ pc' = "loop"
     ELSE /\ log' = log \o << << "info", "process", magazine_name >> >>
                      \o DownloadLog(magazine_name)
          /\ pc' = "extract"
          /\ UNCHANGED mi
  /\ UNCHANGED mvars
  /\ UNCHANGED << repo, recent_updated, force_update, today, run, text_content,
                  classified_articles, magazine_results, dirs, fs, docs,
                  prev_files, prev_completed >>
  /\ steps' = Append(steps, << magazine_name, "download" >>)

\* the file main holds in file_path
current_file == CHOOSE f \in file_path : TRUE

\* file_path.endswith(".epub") / file_path.endswith(".pdf")
Supported(f) ==
  EndsWith(f.name, << "." >> \o EPUB) \/ EndsWith(f.name, << "." >> \o PDF)

\* epub.read_epub / pdfplumber.open raise on a file they cannot parse
ExtractRaises(f) == f.content.kind = "corrupt"

\* extract_text_from_epub / extract_text_from_pdf
extract_text(f) == FileText(f.content)

\* main, lines 529-535; an exception of the reader is not caught in main
Extract ==
  /\ pc = "extract"
  /\ IF ~Supported(current_file)
     THEN /\ log' = Append(log, << "warning", "unsupported format", magazine_name >>)
          /\ mi' = mi + 1
          /\ pc' = "loop"
          /\ UNCHANGED text_content
     ELSE IF ExtractRaises(current_file)
          THEN /\ pc' = "aborted"
               /\ UNCHANGED << log, mi, text_content >>
          ELSE /\ text_content' = extract_text(current_file)
               /\ pc' = "classify"
               /\ UNCHANGED << log, mi >>
  /\ UNCHANGED mvars
  /\ UNCHANGED << repo, recent_updated, force_update, today, run, file_path,
                  classified_articles, magazine_results, dirs, fs, tmp, docs,
                  attempted, downloaded, prev_files, prev_completed >>
  /\ steps' = Append(steps, << magazine_name, "extract" >>)

\* main, line 538
Classify ==
  /\ pc = "classify"
  /\ classified_articles' = classify_text(text_content, "article")
  /\ pc' = "save"
  /\ UNCHANGED mvars
  /\ UNCHANGED << repo, recent_updated, force_update, today, run, mi, file_path,
                  text_content, magazine_results, dirs, fs, tmp, docs, log,
                  attempted, downloaded, prev_files, prev_completed >>
  /\ steps' = Append(steps, << magazine_name, "classify" >>)

\* mutant: the next magazine is started before the temporary file is removed
Save_ThenNext ==
  /\ pc = "save"
  /\ fs' = Overlay(fs, WrittenFiles(magazine_name, classified_articles, today))
  /\ magazine_results' =
       Overlay(magazine_results,
               [m \in {magazine_name} |-> save_articles(magazine_name, classified_articles)])
  /\ pc' = "loop"
  /\ mi' = mi + 1
  /\ UNCHANGED mvars
  /\ UNCHANGED << repo, recent_updated, force_update, today, run, file_path,
                  text_content, classified_articles, dirs, tmp, docs, log,
                  attempted, downloaded, prev_files, prev_completed >>
  /\ steps' = Append(steps, << magazine_name, "save" >>)

\* main, lines 541-542
Save ==
  /\ pc = "save"
  /\ fs' = Overlay(fs, WrittenFiles(magazine_name, classified_articles, today))
  /\ magazine_results' =
       Overlay(magazine_results,
               [m \in {magazine_name} |-> save_articles(magazine_name, classified_articles)])
  /\ pc' = "remove"
  /\ UNCHANGED mvars
  /\ UNCHANGED << repo, recent_updated, force_update, today, run, mi, file_path,
                  text_content, classified_articles, dirs, tmp, docs, log,
                  attempted, downloaded, prev_files, prev_completed >>
  /\ steps' = Append(steps, << magazine_name, "save" >>)

\* main, line 545
Remove ==
  /\ pc = "remove"
  /\ tmp' = tmp \ file_path
  /\ mi' = mi + 1
  /\ pc' = "loop"
  /\ UNCHANGED mvars
  /\ UNCHANGED << repo, recent_updated, force_update, today, run, file_path,
                  text_content, classified_articles, magazine_results, dirs, fs,
                  docs, log, attempted, downloaded, prev_files, prev_completed >>
  /\ steps' = Append(steps, << magazine_name, "remove" >>)

\* what save_articles writes for one article (lines 210-213)
SectionText(section) ==
  << "#", "#", " " >> \o section.title \o << "\n", "\n" >> \o section.body
    \o << "\n", "\n", "-", "-", "-", "\n", "\n" >>

\* the matches of re.split(r'^## (.+)$', ..., re.MULTILINE) (line 414) in a
\* text that begins a line: the lines that begin with '## ' and go on with a
\* character; reading the file in text mode turns '\r' into '\n'
HeadingLines(written) ==
  {p \in 1..(Len(written) - 3) :
     /\ p = 1 \/ written[p - 1] \in {"\n", "\r"}
     /\ SubSeq(written, p, p + 2) = << "#", "#", " " >>
     /\ written[p + 3] \notin {"\n", "\r"}}

RECURSIVE PageCount(_)
\* the number of matches of line 414 in a file save_articles wrote
PageCount(sections) ==
  IF sections = <<>> THEN 0
  ELSE Cardinality(HeadingLines(SectionText(Head(sections))))
         + PageCount(Tail(sections))

\* generate_website: one article page per match of line 414 in every Markdown
\* file under ARTICLES_DIR (numbered i//2), then index.html and .nojekyll
generate_website ==
  UNION {{<< "article", f.magazine, f.dir, i - 1, f.date >> :
            i \in 1..PageCount(fs[f].sections)} : f \in DOMAIN fs}
    \cup {<< "index.html" >>, << ".nojekyll" >>}

\* main, lines 548-552
Website ==
  /\ pc = "loop"
  /\ mi > Len(MAGAZINES)
  /\ IF magazine_results # EmptyMap
     THEN /\ docs' = docs \cup generate_website
          /\ log' = Append(log, << "info", "website generated", "" >>)
     ELSE /\ log' = Append(log, << "warning", "nothing collected", "" >>)
          /\ UNCHANGED docs
  /\ pc' = "done"
  /\ UNCHANGED mvars
  /\ UNCHANGED << repo, recent_updated, force_update, today, run, mi, file_path,
                  text_content, classified_articles, magazine_results, dirs, fs,
                  tmp, attempted, downloaded, prev_files, prev_completed,
                  steps >>

\* the process has ended: main returned, or an exception left it
Ended == pc \in {"done", "aborted"}

\* the next scheduled run of the workflow: a new process over the same
\* repository and the same working tree, on the same day or the next
NewRun ==
  /\ Ended
  /\ run < MaxRuns
  /\ run' = run + 1
  /\ today' \in {today, today + 1}
  /\ recent_updated' \in BOOLEAN
  /\ force_update' \in BOOLEAN
  /\ prev_files' = DOMAIN fs
  /\ prev_completed' = (pc = "done" /\ ~NoUpdate)
  /\ downloaded' = {}
  /\ steps' = <<>>
  /\ pc' = "start"
  /\ mi' = 0
  /\ file_path' = {}
  /\ text_content' = <<>>
  /\ classified_articles' = EmptyClassified
  /\ magazine_results' = EmptyMap
  /\ log' = <<>>
  /\ attempted' = {}
  /\ UNCHANGED mvars
  /\ UNCHANGED << repo, dirs, fs, tmp, docs >>
  /\ UNCHANGED mvars

(***************************************************************************)
(* collector_mvp.py                                                        *)
(***************************************************************************)
MaxEpubs == 2

\* the text of a document item, soup.get_text('\n')
ItemText(id) == << id >>

DocItem(id) == [doc |-> TRUE, ok |-> TRUE, text |-> id]
\* an item that is no document (an image, a style sheet)
OtherItem == [doc |-> FALSE, ok |-> TRUE, text |-> "x"]
\* a document item whose content cannot be decoded or parsed
BadItem == [doc |-> TRUE, ok |-> FALSE, text |-> "y"]

\* the entries SRC.glob('*.epub') can yield, but for the stem
EpubInputs ==
  { [is_file |-> TRUE, readable |-> TRUE,
     items |-> << DocItem("a"), OtherItem, DocItem("b") >>],
    [is_file |-> TRUE, readable |-> TRUE,
     items |-> << DocItem("a"), BadItem, DocItem("b") >>],
    [is_file |-> TRUE, readable |-> TRUE, items |-> <<>>],
    [is_file |-> TRUE, readable |-> FALSE, items |-> <<>>],
    [is_file |-> FALSE, readable |-> FALSE, items |-> <<>>] }

\* the listings of SRC: entry i has the stem i
SrcInputs ==
  UNION {{[i \in 1..n |-> [stem |-> i, is_file |-> k[i].is_file,
                           readable |-> k[i].readable, items |-> k[i].items]] :
            k \in [1..n -> EpubInputs]} : n \in 0..MaxEpubs}

\* lines 26-47: BASE_DIR is logged, then the working directory is listed;
\* when the listing raises, the error is logged and the script exits
MvpBoot ==
  /\ mpc = "boot"
  /\ IF base_ok
     THEN /\ mpc' = "check_src"
          /\ mlog' = Append(mlog, << "info", "base dir", 0 >>)
     ELSE /\ mpc' = "exited"
          /\ mlog' = mlog \o << << "info", "base dir", 0 >>,
                               << "error", "init failed", 0 >> >>
  /\ UNCHANGED << base_ok, item_document, src_exists, src_listing, mrun,
                  epub_files, ei, dst,
                  site, opened, prev_dst >>
  /\ UNCHANGED cvars

\* mutant: the existence check of SRC is left out
MvpCheckSrc_NoExit ==
  /\ mpc = "check_src"
  /\ mpc' = "main"
  /\ UNCHANGED << base_ok, item_document, src_exists, src_listing, mrun,
                  epub_files, ei, dst,
                  site, opened, mlog, prev_dst >>
  /\ UNCHANGED cvars

\* lines 55-64: the two paths are logged; when SRC does not exist the error
\* and the three lines of advice are logged, then sys.exit(1)
MvpCheckSrc ==
  /\ mpc = "check_src"
  /\ IF ~src_exists
     THEN /\ mpc' = "exited"
          /\ mlog' = mlog \o << << "info", "source path", 0 >>,
                               << "info", "target path", 0 >>,
                               << "error", "source directory missing", 0 >>,
                               << "info", "advice", 0 >>,
                               << "info", "advice 1", 0 >>,
                               << "info", "advice 2", 0 >> >>
     ELSE /\ mpc' = "main"
          /\ mlog' = mlog \o << << "info", "source path", 0 >>,
                               << "info", "target path", 0 >> >>
  /\ UNCHANGED << base_ok, item_document, src_exists, src_listing, mrun,
                  epub_files, ei, dst,
                  site, opened, prev_dst >>
  /\ UNCHANGED cvars

\* main, lines 343-362: the EPUB files of SRC
MvpMainStart ==
  /\ mpc = "main"
  /\ epub_files' = SelectSeq(src_listing, LAMBDA f : f.is_file)
  /\ IF SelectSeq(src_listing, LAMBDA f : f.is_file) = <<>>
     THEN /\ mlog' = Append(mlog, << "warning", "no epub found", 0 >>)
          /\ mpc' = "done"
          /\ UNCHANGED ei
     ELSE /\ mlog' = Append(mlog, << "info", "epub files found", 0 >>)
          /\ mpc' = "convert"
          /\ ei' = 1
  /\ UNCHANGED << base_ok, item_document, src_exists, src_listing, mrun, dst,
                  site, opened,
                  prev_dst >>
  /\ UNCHANGED cvars

RECURSIVE MdParts(_)
\* md_parts of epub_to_md: the text of every document item that parses
MdParts(items) ==
  IF items = <<>> THEN <<>>
  ELSE IF Head(items).doc /\ Head(items).ok
       THEN << ItemText(Head(items).text) >> \o MdParts(Tail(items))
       ELSE MdParts(Tail(items))

RECURSIVE ItemWarnings(_, _)
\* the warning epub_to_md logs for every document item that fails
ItemWarnings(items, stem) ==
  IF items = <<>> THEN <<>>
  ELSE IF Head(items).doc /\ ~Head(items).ok
       THEN << << "warning", "item failed", stem >> >> \o ItemWarnings(Tail(items), stem)
       ELSE ItemWarnings(Tail(items), stem)

RECURSIVE JoinParts(_)
\* '\n\n'.join(md_parts)
JoinParts(parts) ==
  IF parts = <<>> THEN <<>>
  ELSE IF Len(parts) = 1 THEN parts[1]
       ELSE parts[1] \o << "\n", "\n" >> \o JoinParts(Tail(parts))

\* epub.read_epub raises on a file it cannot parse
ReadRaises(epub) == ~epub.readable

\* line 82: `item.get_type() == epub.ITEM_DOCUMENT`, evaluated for the first
\* item outside the inner try, raises AttributeError when the module
\* ebooklib.epub has no such attribute (ebooklib keeps its ITEM_ constants in
\* the package ebooklib, as collector.py line 141 reads them)
TypeTestRaises(epub) == ~item_document /\ epub.items # <<>>

\* the files under DST after epub_to_md(epub, DST)
epub_to_md(epub, out) ==
  IF ~epub.is_file THEN out
  ELSE IF ReadRaises(epub) \/ TypeTestRaises(epub) THEN out
  ELSE Overlay(out, [f \in {epub.stem} |-> JoinParts(MdParts(epub.items))])

\* what epub_to_md(epub, DST) logs
EpubLog(epub) ==
  IF ~epub.is_file THEN << << "error", "not a file", epub.stem >> >>
  ELSE IF ReadRaises(epub) \/ TypeTestRaises(epub)
       THEN << << "info", "processing", epub.stem >>,
               << "error", "failed", epub.stem >> >>
       ELSE << << "info", "processing", epub.stem >> >>
              \o ItemWarnings(epub.items, epub.stem)
              \o << << "info", "converted", epub.stem >> >>

\* main, lines 365-366: one call of epub_to_md
MvpConvert ==
  /\ mpc = "convert"
  /\ ei <= Len(epub_files)
  /\ dst' = epub_to_md(epub_files[ei], dst)
  /\ opened' = IF epub_files[ei].is_file THEN opened \cup {epub_files[ei].stem}
               ELSE opened
  /\ mlog' = mlog \o EpubLog(epub_files[ei])
  /\ ei' = ei + 1
  /\ UNCHANGED << base_ok, item_document, src_exists, src_listing, mrun, mpc,
                  epub_files, site,
                  prev_dst >>
  /\ UNCHANGED cvars

\* generate_index_html: index.html and one page per Markdown file under DST
generate_index_html ==
  IF DOMAIN dst = {} THEN {}
  ELSE {<< "index.html" >>} \cup {<< "articles", stem >> : stem \in DOMAIN dst}

\* main, lines 369-373
MvpIndex ==
  /\ mpc = "convert"
  /\ ei > Len(epub_files)
  /\ site' = site \cup generate_index_html
  /\ mlog' = Append(mlog, << "info", "finished", 0 >>)
  /\ mpc' = "done"
  /\ UNCHANGED << base_ok, item_document, src_exists, src_listing, mrun,
                  epub_files, ei, dst,
                  opened, prev_dst >>
  /\ UNCHANGED cvars

\* the process has ended: main returned, or sys.exit(1)
MvpEnded == mpc \in {"done", "exited"}

\* the next run of the script over the same source directory and working tree
MvpNewRun ==
  /\ MvpEnded
  /\ mrun < MaxRuns
  /\ mrun' = mrun + 1
  /\ prev_dst' = DOMAIN dst
  /\ mpc' = "boot"
  /\ epub_files' = <<>>
  /\ ei' = 0
  /\ opened' = {}
  /\ mlog' = <<>>
  /\ UNCHANGED << base_ok, item_document, src_exists, src_listing, dst, site >>
  /\ UNCHANGED cvars

(***************************************************************************)
(* Specifications                                                          *)
(***************************************************************************)
\* collector.py is not running
CollectorOff ==
  /\ repo = [m \in MagazineSet |-> FolderError]
  /\ recent_updated = FALSE
  /\ force_update = FALSE
  /\ today = 1
  /\ run = 1
  /\ pc = "off"
  /\ mi = 0
  /\ file_path = {}
  /\ text_content = <<>>
  /\ classified_articles = EmptyClassified
  /\ magazine_results = EmptyMap
  /\ dirs = {}
  /\ fs = EmptyMap
  /\ tmp = {}
  /\ docs = {}
  /\ log = <<>>
  /\ attempted = {}
  /\ downloaded = {}
  /\ prev_files = {}
  /\ prev_completed = FALSE
  /\ steps = <<>>

\* collector_mvp.py is not running
MvpOff ==
  /\ base_ok = TRUE
  /\ item_document = TRUE
  /\ src_exists = FALSE
  /\ src_listing = <<>>
  /\ mrun = 1
  /\ mpc = "off"
  /\ epub_files = <<>>
  /\ ei = 0
  /\ dst = EmptyMap
  /\ site = {}
  /\ opened = {}
  /\ mlog = <<>>
  /\ prev_dst = {}

\* a first run of collector.py in an empty working tree
Init ==
  /\ repo \in RepoInputs
  /\ recent_updated \in BOOLEAN
  /\ force_update \in BOOLEAN
  /\ today = 1
  /\ run = 1
  /\ pc = "start"
  /\ mi = 0
  /\ file_path = {}
  /\ text_content = <<>>
  /\ classified_articles = EmptyClassified
  /\ magazine_results = EmptyMap
  /\ dirs = {}
  /\ fs = EmptyMap
  /\ tmp = {}
  /\ docs = {}
  /\ log = <<>>
  /\ attempted = {}
  /\ downloaded = {}
  /\ prev_files = {}
  /\ prev_completed = FALSE
  /\ steps = <<>>
  /\ MvpOff

Next ==
  \/ MainStart
  \/ CheckUpdates
  \/ Download
  \/ Extract
  \/ Classify
  \/ Save
  \/ Remove
  \/ Website
  \/ NewRun

Spec == Init /\ [][Next]_vars

\* collector.main holding the downloaded file of the first magazine, for every
\* content of that file
InitText ==
  /\ repo \in {TextRepo(c) : c \in ContentInputs}
  /\ recent_updated = TRUE
  /\ force_update = FALSE
  /\ today = 1
  /\ run = 1
  /\ pc = "extract"
  /\ mi = 1
  /\ file_path = download_magazine(MAGAZINES[1])
  /\ text_content = <<>>
  /\ classified_articles = EmptyClassified
  /\ magazine_results = EmptyMap
  /\ dirs = setup_storage
  /\ fs = EmptyMap
  /\ tmp = download_magazine(MAGAZINES[1])
  /\ docs = {}
  /\ log = << << "info", "start", "" >>, << "info", "process", MAGAZINES[1] >>,
              << "info", "download", MAGAZINES[1] >> >>
  /\ attempted = {MAGAZINES[1]}
  /\ downloaded = download_magazine(MAGAZINES[1])
  /\ prev_files = {}
  /\ prev_completed = FALSE
  /\ steps = << << MAGAZINES[1], "download" >> >>
  /\ MvpOff

NextText ==
  \/ Extract
  \/ Classify
  \/ Save
  \/ Remove

SpecText == InitText /\ [][NextText]_vars

\* a first run of collector_mvp.py
InitMvp ==
  /\ base_ok \in BOOLEAN
  /\ item_document \in BOOLEAN
  /\ src_exists \in BOOLEAN
  /\ src_listing \in (IF src_exists THEN SrcInputs ELSE {<<>>})
  /\ mrun = 1
  /\ mpc = "boot"
  /\ epub_files = <<>>
  /\ ei = 0
  /\ dst = EmptyMap
  /\ site = {}
  /\ opened = {}
  /\ mlog = <<>>
  /\ prev_dst = {}
  /\ CollectorOff

NextMvp ==
  \/ MvpBoot
  \/ MvpCheckSrc
  \/ MvpMainStart
  \/ MvpConvert
  \/ MvpIndex
  \/ MvpNewRun

SpecMvp == InitMvp /\ [][NextMvp]_vars

(***************************************************************************)
(* Claims                                                                  *)
(***************************************************************************)
\* the elements of a sequence
Range(seq) == {seq[i] : i \in 1..Len(seq)}

RECURSIVE SumTo(_, _)
\* f[1] + ... + f[n]
SumTo(f, n) == IF n = 0 THEN 0 ELSE f[n] + SumTo(f, n - 1)

\* the number of articles in a classification
ArticleCount(classified) ==
  SumTo([i \in 1..Len(TOPICS) |-> Len(classified[TOPICS[i]])], Len(TOPICS))

\* the number of whitespace-delimited tokens of a text
WordCount(s) ==
  Cardinality({i \in 1..Len(s) : ~IsSpace(s[i]) /\ (i = 1 \/ IsSpace(s[i - 1]))})

\* the number of whole-word occurrences of the keyword kw in the text s
Occurrences(kw, s) ==
  Cardinality({p \in 1..(Len(s) - Len(kw) + 1) :
                 /\ s[p] = kw[1]
                 /\ SubSeq(s, p, p + Len(kw) - 1) = kw
                 /\ (p = 1 \/ ~IsWord(s[p - 1]))
                 /\ (p + Len(kw) > Len(s) \/ ~IsWord(s[p + Len(kw)]))})

\* the total number of whole-word occurrences of a topic's keywords in s
TopicOccurrences(topic, s) ==
  SumTo([k \in 1..Len(TOPICS_KEYWORDS[topic]) |->
           Occurrences(TOPICS_KEYWORDS[topic][k], s)],
        Len(TOPICS_KEYWORDS[topic]))

\* the number of a topic's keywords that occur in s as a whole word
TopicPresence(topic, s) ==
  Cardinality({k \in 1..Len(TOPICS_KEYWORDS[topic]) :
                 Occurrences(TOPICS_KEYWORDS[topic][k], s) > 0})

\* the position of a topic in the declared list
TopicIndex(topic) == CHOOSE i \in 1..Len(TOPICS) : TOPICS[i] = topic

\* the candidates of the current text that pass the length filter, stripped
LongCandidates ==
  {a \in {str_strip(seg) : seg \in Range(Segments(text_content, "article"))} :
     Len(a) >= MIN_LENGTH}

\* the text is two blocks of at least 250 words, each ending in '.', with
\* three or more blank lines (four or more newlines) between them
TwoBlocksApart(t) ==
  LET nl == {i \in 1..Len(t) : t[i] = "\n"}
      lo == CHOOSE i \in nl : \A j \in nl : i <= j
      hi == CHOOSE i \in nl : \A j \in nl : j <= i
  IN /\ Cardinality(nl) >= 4
     /\ hi - lo + 1 = Cardinality(nl)
     /\ lo > 1
     /\ hi < Len(t)
     /\ t[lo - 1] = "."
     /\ t[Len(t)] = "."
     /\ WordCount(SubSeq(t, 1, lo - 1)) >= 250
     /\ WordCount(SubSeq(t, hi + 1, Len(t))) >= 250

\* the fingerprint of a candidate: the first 60 characters of its trimmed text
Fingerprint(a) ==
  LET t == str_strip(a)
  IN SubSeq(t, 1, IF Len(t) < 60 THEN Len(t) ELSE 60)

\* the article records of the Markdown files: (file, position in the file)
Records ==
  UNION {{<< f, i >> : i \in 1..Len(fs[f].sections)} : f \in DOMAIN fs}

\* C1: a parse error on one source file is caught, the file is skipped and
\* every remaining magazine of the batch is still attempted: collector.main
\* is never left by an exception, and a run that passed the update gate ends
\* with every magazine attempted.
C1_ParseErrorDoesNotAbortBatch ==
  /\ pc # "aborted"
  /\ (pc = "done" /\ ~NoUpdate) => attempted = MagazineSet

\* C2: when SRC does not exist the script logs the error and exits before
\* main is entered, before any EPUB is read and before any Markdown or HTML
\* file is written; once it has exited the error is in the log, followed by
\* nothing but lines of advice.
C2_MissingSrcIsFatal ==
  ~src_exists =>
    /\ mpc \in {"boot", "check_src", "exited"}
    /\ opened = {}
    /\ epub_files = <<>>
    /\ dst = EmptyMap
    /\ site = {}
    /\ (mpc = "exited" /\ base_ok) =>
         \E i \in 1..Len(mlog) :
           /\ mlog[i] = << "error", "source directory missing", 0 >>
           /\ \A j \in (i + 1)..Len(mlog) : mlog[j][1] = "info"

\* C2 witness: the script has exited on the missing source directory
C2_Witness == ~src_exists /\ base_ok /\ mpc = "exited"

\* C3: a text of two blocks of at least 250 words each, separated by three
\* or more blank lines and each ending in '.', is split into exactly two
\* candidates, and classify_text returns exactly two articles for it.
C3_SplitsOnBlankLines ==
  (pc = "save" /\ TwoBlocksApart(text_content)) =>
    /\ Len(Segments(text_content, "article")) = 2
    /\ ArticleCount(classified_articles) = 2

\* C4 as stated: every classified article sits under a topic whose total
\* number of whole-word keyword occurrences (repeats counted) is maximal.
C4_TotalOccurrenceArgmax ==
  pc = "save" =>
    \A topic \in TopicSet : \A a \in Range(classified_articles[topic]) :
      \A other \in TopicSet :
        TopicOccurrences(other, a) <= TopicOccurrences(topic, a)

\* C4 as amended: the score of a topic is the number of its keywords that
\* occur at least once as a whole word (a repeated keyword counts once, a
\* substring match does not count); every candidate of at least 100
\* characters with a keyword is placed under a topic of maximal score; and
\* a candidate holding "ai", "software" and "internet" twice each and no
\* keyword of another topic is placed under "technology".
C4_KeywordPresenceArgmax ==
  pc = "save" =>
    /\ \A topic \in TopicSet : \A a \in Range(classified_articles[topic]) :
         /\ TopicPresence(topic, a) > 0
         /\ \A other \in TopicSet :
              TopicPresence(other, a) <= TopicPresence(topic, a)
    /\ \A a \in LongCandidates :
         (\E t \in TopicSet : TopicPresence(t, a) > 0) =>
           \E topic \in TopicSet : a \in Range(classified_articles[topic])
    /\ \A a \in LongCandidates :
         ( /\ Occurrences(<< "a", "i" >>, a) = 2
           /\ Occurrences(<< "s", "o", "f", "t", "w", "a", "r", "e" >>, a) = 2
           /\ Occurrences(<< "i", "n", "t", "e", "r", "n", "e", "t" >>, a) = 2
           /\ \A t \in TopicSet \ {"technology"} : TopicOccurrences(t, a) = 0 )
           => a \in Range(classified_articles["technology"])

\* C4 witness: an article placed under finance although the keywords of
\* technology occur more often in it
C4_Witness ==
  /\ pc = "save"
  /\ \E a \in Range(classified_articles["finance"]) :
       TopicOccurrences("technology", a) > TopicOccurrences("finance", a)

\* C5: every candidate that passes the length filter receives a topic
\* label, and a candidate without any keyword hit is labelled "General".
C5_EveryCandidateLabelled ==
  pc = "save" =>
    \A a \in LongCandidates :
      /\ \E label \in DOMAIN classified_articles :
           a \in Range(classified_articles[label])
      /\ (\A t \in TopicSet : TopicPresence(t, a) = 0) =>
           /\ "General" \in DOMAIN classified_articles
           /\ a \in Range(classified_articles["General"])

\* C6: no two article records written for one magazine in one run have the
\* same fingerprint.
C6_OneRecordPerFingerprint ==
  \A x \in Records : \A y \in Records :
    (x # y /\ x[1].magazine = y[1].magazine /\ x[1].date = y[1].date) =>
      Fingerprint(fs[x[1]].sections[x[2]].body)
        # Fingerprint(fs[y[1]].sections[y[2]].body)

\* C7: when a run that went through all magazines is followed by another
\* such run over the same repository, the second run leaves the set of
\* article files as the first run left it.
C7_SecondRunAddsNothing ==
  (run >= 2 /\ prev_completed /\ pc = "done" /\ ~NoUpdate) =>
    DOMAIN fs = prev_files

\* C8 as stated: every Markdown file save_articles writes holds exactly one
\* article, so there are as many files as article records.
C8_OneFilePerArticle ==
  pc = "remove" =>
    /\ \A f \in DOMAIN fs : Len(fs[f].sections) = 1
    /\ Cardinality(DOMAIN fs) = ArticleCount(classified_articles)

\* C8 as amended: save_articles writes one Markdown file per topic that has
\* an article, named after the magazine and the run date under the topic's
\* directory; the file holds one section per article of the topic, in
\* order, so the sections of the files number as many as the articles and
\* as the counts save_articles returns.
C8_OneFilePerTopic ==
  pc = "remove" =>
    /\ DOMAIN fs = {OutputFile(topic, magazine_name, today) :
                      topic \in {t \in TopicSet : classified_articles[t] # <<>>}}
    /\ \A f \in DOMAIN fs :
         /\ fs[f].heading = << magazine_name, f.dir, today >>
         /\ [i \in 1..Len(fs[f].sections) |-> fs[f].sections[i].body]
              = classified_articles[f.dir]
         /\ magazine_results[magazine_name][f.dir] = Len(fs[f].sections)
    /\ Cardinality(Records) = ArticleCount(classified_articles)

\* C8 witness: a file that holds two articles
C8_Witness ==
  /\ pc = "remove"
  /\ \E f \in DOMAIN fs : Len(fs[f].sections) = 2

\* magazine m has brought no article in this run
YieldedNothing(m) ==
  m \notin DOMAIN magazine_results \/ magazine_results[m] = EmptyMap

\* C9: when the selected file of a publication yields no article or cannot
\* be processed, every other matching file of that publication has been
\* tried before the run gives up on the publication.
C9_FallsBackToNextFile ==
  (pc = "done" /\ ~NoUpdate) =>
    \A m \in MagazineSet :
      (repo[m].ok /\ YieldedNothing(m)) =>
        \A f \in MatchingFiles(m, repo[m].contents) :
          \E d \in downloaded : d.dir = << run, m >> /\ d.name = f.name

\* C10: every classified article sits under a topic of maximal score, and
\* among the topics of maximal score under the one declared first.
C10_TieBreakByDeclarationOrder ==
  pc = "save" =>
    \A topic \in TopicSet : \A a \in Range(classified_articles[topic]) :
      \A other \in TopicSet :
        /\ TopicPresence(other, a) <= TopicPresence(topic, a)
        /\ TopicPresence(other, a) = TopicPresence(topic, a) =>
             TopicIndex(topic) <= TopicIndex(other)

\* C10 witness: an article placed under the first of two topics that tie
C10_Witness ==
  /\ pc = "save"
  /\ \E topic \in TopicSet : \E a \in Range(classified_articles[topic]) :
       \E other \in TopicSet \ {topic} :
         TopicPresence(other, a) = TopicPresence(topic, a)

\* C11: in a second run, a source file whose output already exists is
\* skipped: it is not read again and its Markdown file is not written again.
C11_ExistingOutputIsSkipped ==
  mrun >= 2 =>
    \A stem \in prev_dst :
      /\ stem \notin opened
      /\ << "info", "converted", stem >> \notin Range(mlog)

\* the position of a magazine in MAGAZINES
MagazineIndex(m) == CHOOSE i \in 1..Len(MAGAZINES) : MAGAZINES[i] = m

\* the position of a step within one iteration of the loop
StepRank(step) ==
  CASE step = "download" -> 1
    [] step = "extract" -> 2
    [] step = "classify" -> 3
    [] step = "save" -> 4
    [] step = "remove" -> 5

\* the step st is the last one of its magazine: the file was removed, the
\* download brought nothing, or the format is not supported
IterationOver(st) ==
  \/ st[2] = "remove"
  \/ st[2] = "download" /\ download_magazine(st[1]) = {}
  \/ st[2] = "extract" /\ \E f \in download_magazine(st[1]) : ~Supported(f)

\* C12: the steps of a run are taken magazine by magazine: every step is
\* followed by the next step of the same magazine, or, once that magazine's
\* steps are over, by the download of the next magazine.
C12_StrictlySequential ==
  /\ steps # <<>> => steps[1] = << MAGAZINES[1], "download" >>
  /\ \A i \in 1..(Len(steps) - 1) :
       \/ /\ steps[i + 1][1] = steps[i][1]
          /\ StepRank(steps[i + 1][2]) = StepRank(steps[i][2]) + 1
       \/ /\ MagazineIndex(steps[i + 1][1]) = MagazineIndex(steps[i][1]) + 1
          /\ steps[i + 1][2] = "download"
          /\ IterationOver(steps[i])

\* C12 witness: a finished run that saved the articles of two magazines
C12_Witness ==
  /\ pc = "done"
  /\ \E i \in 1..Len(steps) : \E j \in 1..Len(steps) :
       i < j /\ steps[i][2] = "save" /\ steps[j][2] = "save"

\* the articles classify_text has returned for the current magazine
ReturnedArticles ==
  UNION {Range(classified_articles[topic]) : topic \in TopicSet}

\* the article bodies that save_articles has written to the article files
PersistedArticles ==
  UNION {{fs[f].sections[i].body : i \in 1..Len(fs[f].sections)} : f \in DOMAIN fs}

\* C13: every article returned by classify_text or persisted by save_articles
\* has at least 150 whitespace-delimited words.
C13_AtLeast150Words ==
  \A a \in ReturnedArticles \cup PersistedArticles : WordCount(a) >= 150

\* C14: when main has ended, every file download_magazine returned during the
\* run has been removed from the temporary directory.
C14_TemporaryFilesRemoved ==
  Ended => \A f \in downloaded : f \notin tmp

\* generate_website has been called in this run
WebsiteGenerated == << "info", "website generated", "" >> \in Range(log)

\* C15: when main has ended: without a recent update and without FORCE_UPDATE
\* the storage is set up and nothing was downloaded, written or generated;
\* otherwise every magazine of MAGAZINES was attempted.
C15_UpdateGate ==
  Ended =>
    IF NoUpdate
    THEN /\ dirs = setup_storage
         /\ attempted = {}
         /\ downloaded = {}
         /\ steps = <<>>
         /\ DOMAIN fs = prev_files
         /\ ~WebsiteGenerated
    ELSE attempted = MagazineSet

\* the number of articles saved in this run
SavedThisRun ==
  SumTo([i \in 1..Len(MAGAZINES) |->
           IF MAGAZINES[i] \in DOMAIN magazine_results
           THEN SumTo([k \in 1..Len(TOPICS) |->
                         IF TOPICS[k] \in DOMAIN magazine_results[MAGAZINES[i]]
                         THEN magazine_results[MAGAZINES[i]][TOPICS[k]] ELSE 0],
                      Len(TOPICS))
           ELSE 0],
        Len(MAGAZINES))

\* C16: the website is generated only after every magazine was processed, and
\* a run that passed the gate and returned generated it if and only if it
\* saved at least one article; otherwise it logged that nothing was collected.
C16_WebsiteIffArticleSaved ==
  /\ WebsiteGenerated => attempted = MagazineSet /\ pc = "done"
  /\ (pc = "done" /\ ~NoUpdate) =>
       /\ WebsiteGenerated <=> SavedThisRun > 0
       /\ SavedThisRun = 0 => << "warning", "nothing collected", "" >> \in Range(log)

\* the blocks the current text is split into
CurrentBlocks == Segments(text_content, "article")

\* some keyword of some topic occurs in s as a whole word
SomeKeyword(s) == \E topic \in TopicSet : TopicPresence(topic, s) > 0

\* the positions of the blocks that are long enough and hold a keyword
PlacedBlocks ==
  {i \in 1..Len(CurrentBlocks) :
     /\ Len(str_strip(CurrentBlocks[i])) >= 100
     /\ SomeKeyword(CurrentBlocks[i])}

\* the number of times the text a stands in the lists of a classification
TimesListed(classified, a) ==
  SumTo([k \in 1..Len(TOPICS) |->
           Cardinality({j \in 1..Len(classified[TOPICS[k]]) :
                          classified[TOPICS[k]][j] = a})],
        Len(TOPICS))

\* C17: the mapping classify_text returns has exactly the keys of
\* TOPICS_KEYWORDS; a block stands in a topic list exactly when it has at
\* least 100 stripped characters and some keyword matches it, and then in one
\* list only; the counts save_articles returns sum to the number of blocks so
\* placed, and a topic with an empty list has neither a file nor a count.
C17_PartialPartition ==
  /\ DOMAIN classified_articles = DOMAIN TOPICS_KEYWORDS
  /\ pc \in {"save", "remove"} =>
       /\ \A i \in 1..Len(CurrentBlocks) :
            TimesListed(classified_articles, str_strip(CurrentBlocks[i])) =
              Cardinality({j \in PlacedBlocks :
                             str_strip(CurrentBlocks[j]) = str_strip(CurrentBlocks[i])})
       /\ ArticleCount(classified_articles) = Cardinality(PlacedBlocks)
  /\ pc = "remove" =>
       /\ magazine_name \in DOMAIN magazine_results
       /\ LET results == magazine_results[magazine_name]
          IN /\ DOMAIN results \subseteq TopicSet
             /\ \A topic \in TopicSet :
                  /\ topic \in DOMAIN results <=> classified_articles[topic] # <<>>
                  /\ (\E f \in DOMAIN fs : f.dir = topic)
                       <=> classified_articles[topic] # <<>>
             /\ SavedThisRun = Cardinality(PlacedBlocks)

\* C17 witness: the articles of a text were saved in which one block matches
\* keywords of two topics and is placed, and another block is not placed
C17_Witness ==
  /\ pc = "remove"
  /\ \E i \in PlacedBlocks :
       Cardinality({topic \in TopicSet : TopicPresence(topic, CurrentBlocks[i]) > 0}) >= 2
  /\ \E j \in 1..Len(CurrentBlocks) : j \notin PlacedBlocks

\* the document items of an EPUB that decode and parse
GoodItems(items) == {k \in 1..Len(items) : items[k].doc /\ items[k].ok}

RECURSIVE TextOfGoodItems(_)
\* the texts of the good document items, in their order, a blank line between
\* one and the next
TextOfGoodItems(items) ==
  IF items = <<>> THEN <<>>
  ELSE LET n == Len(items)
           before == SubSeq(items, 1, n - 1)
       IN IF n \notin GoodItems(items) THEN TextOfGoodItems(before)
          ELSE IF GoodItems(before) = {} THEN ItemText(items[n].text)
          ELSE TextOfGoodItems(before) \o << "\n", "\n" >> \o ItemText(items[n].text)

\* the EPUBs of the listing epub_to_md has been called on in this run that
\* can be read and hold a document item that fails
WithFailedItem ==
  {epub_files[i] : i \in {k \in 1..Len(epub_files) :
                            /\ k < ei
                            /\ epub_files[k].is_file /\ epub_files[k].readable
                            /\ \E j \in 1..Len(epub_files[k].items) :
                                 epub_files[k].items[j].doc /\ ~epub_files[k].items[j].ok}}

\* C18: for an EPUB with a document item that fails, the failure is logged,
\* and the Markdown file is written and holds the text of all other document
\* items in their order, joined by blank lines.
C18_ItemFailureIsIsolated ==
  \A epub \in WithFailedItem :
    /\ << "warning", "item failed", epub.stem >> \in Range(mlog)
    /\ epub.stem \in DOMAIN dst
    /\ dst[epub.stem] = TextOfGoodItems(epub.items)

====
